---- MODULE Spec2Model ----
(***************************************************************************)
(* A model of the SmartNote note pipeline:                                 *)
(*   - the backend's in-memory note store (POST/GET/DELETE /api/notes),    *)
(*   - the NotesProvider context of the app (notes, persistence, capture   *)
(*     pipelines, calendar sync),                                          *)
(*   - the GoogleCalendarService token state.                              *)
(* Strings that are searched are sequences of one-character strings, so    *)
(* that toLowerCase, trim and includes are computed and not assumed.       *)
(***************************************************************************)
EXTENDS Integers, Sequences, FiniteSets, TLC

(***************************************************************************)
(* Bounds of the model.                                                    *)
(***************************************************************************)
MaxClock == 2
MaxUuid == 1

(***************************************************************************)
(* Optional values: a field that is absent (undefined) is None, a field    *)
(* that is present with value x is Some(x).                                *)
(***************************************************************************)
None == <<>>
Some(x) == <<x>>
IsSome(o) == o # None
The(o) == o[1]

(***************************************************************************)
(* Strings.                                                                *)
(***************************************************************************)
toLowerCaseChar(c) ==
  CASE c = "W" -> "w"
    [] c = "O" -> "o"
    [] c = "R" -> "r"
    [] c = "K" -> "k"
    [] OTHER -> c

toLowerCase(s) == [i \in 1..Len(s) |-> toLowerCaseChar(s[i])]

IsWhitespace(c) == c \in {" ", "\t", "\n"}

RECURSIVE trimStart(_)
trimStart(s) ==
  IF s # <<>> /\ IsWhitespace(Head(s)) THEN trimStart(Tail(s)) ELSE s

RECURSIVE trimEnd(_)
trimEnd(s) ==
  IF s # <<>> /\ IsWhitespace(s[Len(s)])
    THEN trimEnd(SubSeq(s, 1, Len(s) - 1))
    ELSE s

trim(s) == trimEnd(trimStart(s))

includes(s, q) ==
  \E i \in 0..(Len(s) - Len(q)) : SubSeq(s, i + 1, i + Len(q)) = q

(***************************************************************************)
(* Array helpers.                                                          *)
(***************************************************************************)
findIndex(s, id) ==
  IF \E i \in 1..Len(s) : s[i].id = id
    THEN CHOOSE i \in 1..Len(s) :
           s[i].id = id /\ \A j \in 1..(i - 1) : s[j].id # id
    ELSE 0

Ids(s) == {s[i].id : i \in 1..Len(s)}

CountId(s, id) == Cardinality({i \in 1..Len(s) : s[i].id = id})

VARIABLES
  serverNotes,          \* backend: let notes: any[]
  now,                  \* the wall clock read by new Date(), in milliseconds
  uuidCount,            \* number of uuidv4() values handed out
  srvRes,               \* the last request the backend served, with its response
  notes,                \* NotesProvider: useState<Note[]>
  stored,               \* AsyncStorage["@smartnote_notes"], None when unset
  error,                \* NotesProvider: useState<string | null>
  loading,              \* NotesProvider: useState(true)
  isCalendarConnected,  \* NotesProvider: useState(false)
  tokens,               \* GoogleCalendarService.tokens
  storedTokens,         \* AsyncStorage["@google_auth_token"], None when unset
  GROQ_API_KEY,         \* whether EXPO_PUBLIC_GROQ_API_KEY is configured
  load,                 \* the loadNotes call in flight, if any
  check,                \* the checkCalendarConnection call of the mount effect
  alert,                \* the "Delete Note" alert on screen, with its handler
  cap,                  \* the capture pipelines (structureText/structureVoice)
  userOps,              \* number of user gestures outside the capture modal so far
  deletedIds,           \* ids of the notes whose deleteNote has resolved
  searchResult,         \* the last search served, with its result
  discoverItems,        \* NotesProvider: useState<DiscoverItem[]>
  discoverFor,          \* the notes of the last run of the effect on [notes]
  gcal,                 \* calls made to GoogleCalendarService itself, with their results
  modal                 \* CreateNoteModal: its state, and its handlers in flight

srvVars == <<serverNotes, now, uuidCount, srvRes>>

storeVars == <<notes, stored, error, loading>>

calVars == <<isCalendarConnected, tokens, storedTokens>>

procVars == <<GROQ_API_KEY, load, check, alert, cap, userOps, deletedIds>>

ctxVars == <<storeVars, calVars, procVars>>

discoverVars == <<discoverItems, discoverFor>>

auxVars == <<discoverVars, gcal, modal>>

vars == <<srvVars, ctxVars, searchResult, auxVars>>

(***************************************************************************)
(* The backend note store.                                                 *)
(***************************************************************************)
sWork == <<"W", "o", "r", "k">>
sPlan == <<"p", "l", "a", "n">>
sTea == <<"t", "e", "a">>

\* Request bodies of POST /api/notes: a client may send or omit id and
\* createdAt, and may resend an id with other field values.
Bodies ==
  { [id |-> Some(1), title |-> Some(sWork), summary |-> Some(sTea),
     structuredContent |-> None, originalText |-> Some(sPlan),
     tags |-> Some(<<sWork>>), noteType |-> "text", createdAt |-> None],
    [id |-> Some(1), title |-> Some(sPlan), summary |-> Some(sTea),
     structuredContent |-> None, originalText |-> Some(sTea),
     tags |-> Some(<<sTea>>), noteType |-> "voice", createdAt |-> Some(1)],
    [id |-> Some(2), title |-> Some(sTea), summary |-> None,
     structuredContent |-> Some(sPlan), originalText |-> Some(sTea),
     tags |-> None, noteType |-> "text", createdAt |-> Some(1)],
    [id |-> None, title |-> Some(sTea), summary |-> None,
     structuredContent |-> None, originalText |-> Some(sWork),
     tags |-> Some(<<>>), noteType |-> "voice", createdAt |-> None] }

uuidv4 == 10 + uuidCount

\* const note = {...req.body, id: ..., createdAt: ..., updatedAt: ...}
ServerNote(body) ==
  [id |-> IF IsSome(body.id) THEN The(body.id) ELSE uuidv4,
   title |-> body.title,
   summary |-> body.summary,
   structuredContent |-> body.structuredContent,
   originalText |-> body.originalText,
   tags |-> body.tags,
   noteType |-> body.noteType,
   createdAt |-> IF IsSome(body.createdAt) THEN body.createdAt ELSE Some(now),
   updatedAt |-> Some(now)]

unshift(s, note) == <<note>> \o s

\* A store that always inserts at the front.
UpsertAlwaysUnshift(s, note) == unshift(s, note)

\* The store after the upsert of POST /api/notes.
Upsert(s, note) ==
  LET existingIndex == findIndex(s, note.id)
  IN  IF existingIndex >= 1
        THEN [s EXCEPT ![existingIndex] = note]
        ELSE unshift(s, note)

PostNote(body) ==
  /\ ~IsSome(body.id) => uuidCount < MaxUuid
  /\ LET note == ServerNote(body)
     IN  /\ serverNotes' = Upsert(serverNotes, note)
         /\ srvRes' = [op |-> "post", body |-> body, json |-> note,
                       existingIndex |-> findIndex(serverNotes, note.id)]
  /\ uuidCount' = IF IsSome(body.id) THEN uuidCount ELSE uuidCount + 1
  /\ UNCHANGED <<now, ctxVars, searchResult, auxVars>>

DeleteServerNote(id) ==
  /\ serverNotes' = SelectSeq(serverNotes, LAMBDA n : n.id # id)
  /\ srvRes' = [op |-> "delete", id |-> id, json |-> [success |-> TRUE],
                existed |-> id \in Ids(serverNotes)]
  /\ UNCHANGED <<now, uuidCount, ctxVars, searchResult, auxVars>>

\* Time passes between two requests, or does not.
Tick ==
  /\ now < MaxClock
  /\ now' = now + 1
  /\ UNCHANGED <<serverNotes, uuidCount, srvRes, ctxVars, searchResult, auxVars>>

\* JSON objects the backend's completion call may answer with: the keys
\* the prompt asks for, and keys of the note itself.
ServerResponses ==
  { [title |-> Some(sWork), id |-> None, originalText |-> None,
     createdAt |-> None, noteType |-> None],
    [title |-> Some(sTea), id |-> Some(1), originalText |-> Some(sWork),
     createdAt |-> Some(0), noteType |-> Some("none")] }

\* Raw texts sent to POST /api/structure-note.
ServerRawTexts == {sPlan, <<" ", " ">>}

\* { id: uuidv4(), originalText: rawText, ...structured, createdAt, noteType }
StructuredServerNote(rawText, noteType, structured) ==
  [id |-> IF IsSome(structured.id) THEN The(structured.id) ELSE uuidv4,
   originalText |-> IF IsSome(structured.originalText)
                      THEN The(structured.originalText) ELSE rawText,
   title |-> structured.title,
   createdAt |-> now,
   noteType |-> noteType]

\* POST /api/structure-note: 400 for a blank text, else the completion is
\* requested and its JSON answered with the local fields around it.
PostStructureNote(rawText, noteType, structured) ==
  /\ IF trim(rawText) = <<>>
       THEN /\ srvRes' = [op |-> "structure-note", status |-> 400,
                          rawText |-> rawText, noteType |-> noteType]
            /\ UNCHANGED uuidCount
       ELSE /\ uuidCount < MaxUuid
            /\ srvRes' = [op |-> "structure-note", status |-> 200,
                          rawText |-> rawText, noteType |-> noteType,
                          structured |-> structured, uuid |-> uuidv4,
                          json |-> StructuredServerNote(rawText, noteType,
                                                        structured)]
            /\ uuidCount' = uuidCount + 1
  /\ UNCHANGED <<serverNotes, now, ctxVars, searchResult, auxVars>>

(***************************************************************************)
(* Search: NotesProvider.searchNotes and GET /api/notes/search.            *)
(***************************************************************************)
\* A searchNotes that compares the query as typed.
searchNotesCaseSensitive(ns, query) ==
  IF trim(query) = <<>> THEN ns
  ELSE SelectSeq(ns, LAMBDA note :
         \/ includes(note.title, query)
         \/ includes(note.content, query)
         \/ includes(note.originalText, query)
         \/ \E i \in 1..Len(note.tags) : includes(note.tags[i], query))

\* searchNotes(query) over the context's notes.
searchNotes(ns, query) ==
  IF trim(query) = <<>> THEN ns
  ELSE LET searchLower == toLowerCase(query)
       IN  SelectSeq(ns, LAMBDA note :
             \/ includes(toLowerCase(note.title), searchLower)
             \/ includes(toLowerCase(note.content), searchLower)
             \/ includes(toLowerCase(note.originalText), searchLower)
             \/ \E i \in 1..Len(note.tags) :
                  includes(toLowerCase(note.tags[i]), searchLower))

\* field?.toLowerCase().includes(searchLower) on a field that may be absent.
optIncludes(field, searchLower) ==
  IsSome(field) /\ includes(toLowerCase(The(field)), searchLower)

\* The handler of GET /api/notes/search; q is None when the parameter is
\* missing (or is not a string).
serverSearch(ns, q) ==
  IF ~IsSome(q) \/ The(q) = <<>> THEN ns
  ELSE LET searchLower == toLowerCase(The(q))
       IN  SelectSeq(ns, LAMBDA note :
             \/ optIncludes(note.title, searchLower)
             \/ optIncludes(note.summary, searchLower)
             \/ optIncludes(note.structuredContent, searchLower)
             \/ optIncludes(note.originalText, searchLower)
             \/ /\ IsSome(note.tags)
                /\ \E i \in 1..Len(The(note.tags)) :
                     includes(toLowerCase(The(note.tags)[i]), searchLower))

(***************************************************************************)
(* The structuring client (ApiService.structureNote).                      *)
(***************************************************************************)
sUntitled == <<"U", "n", "t", "i", "t", "l", "e", "d", " ", "N", "o", "t", "e">>
sDate == <<"2", "0", "2", "6", "-", "0", "1", "-", "0", "2">>
sTime == <<"1", "5", ":", "0", "0">>

\* JSON objects the completion endpoint may answer with; the first carries
\* keys the prompt does not ask for.
Responses ==
  { [title |-> Some(sWork), content |-> Some(sPlan), tags |-> Some(<<sWork, sTea>>),
     category |-> Some("meeting"), eventDate |-> Some(sDate),
     eventTime |-> Some(sTime), id |-> Some(1), originalText |-> Some(sWork),
     createdAt |-> Some(0), noteType |-> Some("none"), updatedAt |-> Some(0)],
    [title |-> Some(sTea), content |-> Some(sTea), tags |-> Some(<<sTea>>),
     category |-> Some("event"), eventDate |-> None, eventTime |-> None,
     id |-> None, originalText |-> None, createdAt |-> None,
     noteType |-> None, updatedAt |-> None],
    [title |-> None, content |-> None, tags |-> None,
     category |-> Some("idea"), eventDate |-> Some(sDate), eventTime |-> None,
     id |-> None, originalText |-> None, createdAt |-> None,
     noteType |-> None, updatedAt |-> None] }

\* a || b on an optional string
orElse(o, d) == IF IsSome(o) /\ The(o) # <<>> THEN The(o) ELSE d

\* generateId(): a timestamp and a random part, so that each capture gets an
\* id of its own.
generateId(p) == 2 + p

\* The Note that structureNote returns for the response `structured`.
StructuredNote(p, rawText, noteType, structured) ==
  [id |-> generateId(p),
   originalText |-> rawText,
   title |-> orElse(structured.title, sUntitled),
   content |-> orElse(structured.content,
                      <<"<", "p", ">">> \o rawText \o <<"<", "/", "p", ">">>),
   tags |-> IF IsSome(structured.tags) THEN The(structured.tags) ELSE <<>>,
   category |-> IF IsSome(structured.category)
                  THEN The(structured.category) ELSE "other",
   eventDate |-> structured.eventDate,
   eventTime |-> structured.eventTime,
   createdAt |-> now,
   noteType |-> noteType,
   updatedAt |-> None]

(***************************************************************************)
(* NotesProvider.                                                          *)
(***************************************************************************)
MaxCaptures == 2
MaxUserOps == 1

Pids == 1..MaxCaptures

RawTexts == {sPlan}
Transcripts == {sTea}

oldNote1 ==
  [id |-> 1, originalText |-> sTea, title |-> sTea, content |-> sTea,
   tags |-> <<sWork>>, category |-> "idea", eventDate |-> None,
   eventTime |-> None, createdAt |-> 1, noteType |-> "text",
   updatedAt |-> None]

oldNote2 ==
  [id |-> 2, originalText |-> sWork, title |-> sPlan, content |-> sPlan,
   tags |-> <<sWork, sPlan>>, category |-> "meeting", eventDate |-> Some(sDate),
   eventTime |-> None, createdAt |-> 1, noteType |-> "voice",
   updatedAt |-> None]

\* What the notes key of AsyncStorage may hold when the app starts.
StoredAtStartup == {None, Some(<<oldNote2, oldNote1>>)}

theToken == [accessToken |-> "token"]

\* A handler of the modal: whether it awaits its structureText or
\* structureVoice call, what it submitted, and whether handleClose ran
\* while it was waiting.
idleHandler ==
  [pc |-> "none", kind |-> "none", text |-> <<>>, dismissed |-> FALSE]

\* The modal as mounted by the home screen: not visible, state as initialised.
closedModal ==
  [visible |-> FALSE, mode |-> "choice", textInput |-> <<>>,
   createdNote |-> None, error |-> None, processingMessage |-> "",
   handlers |-> [p \in Pids |-> idleHandler]]

idleCapture ==
  [pc |-> "idle", noteType |-> "none", rawText |-> <<>>, notes |-> <<>>,
   isCalendarConnected |-> FALSE, note |-> None, writeOk |-> TRUE,
   log |-> <<>>]

\* The rendered closure a handler runs in: the notes and isCalendarConnected
\* of the render that created structureText, addNote and deleteNote.
Closure(c) ==
  [c EXCEPT !.notes = notes, !.isCalendarConnected = isCalendarConnected]

\* const updatedNotes = [note, ...notes]  (addNote)
addNoteUpdated(note, closureNotes) == <<note>> \o closureNotes

\* const updatedNotes = notes.filter((n) => n.id !== noteId)  (deleteNote)
deleteNoteUpdated(noteId, closureNotes) ==
  SelectSeq(closureNotes, LAMBDA n : n.id # noteId)

\* A condition that forgets the category.
needsCalendarEventAnyCategory(connected, note) ==
  /\ connected
  /\ IsSome(note.eventDate)

\* The condition under which createCalendarEventIfNeeded calls the adapter.
needsCalendarEvent(connected, note) ==
  /\ connected
  /\ note.category \in {"meeting", "event"}
  /\ IsSome(note.eventDate)

\* structureText(text): api.structureNote is called at once; without a
\* credential it throws before any request and the catch sets the error.
structureTextCall(p, text) ==
  /\ cap[p].pc = "idle"
  /\ \A q \in 1..(p - 1) : cap[q].pc # "idle"
  /\ IF GROQ_API_KEY
       THEN /\ cap' = [cap EXCEPT ![p] =
                 [Closure(@) EXCEPT !.pc = "structuring", !.noteType = "text",
                                    !.rawText = text,
                                    !.log = Append(@, "completion")]]
            /\ UNCHANGED error
       ELSE /\ cap' = [cap EXCEPT ![p] =
                 [Closure(@) EXCEPT !.pc = "failed", !.noteType = "text",
                                    !.rawText = text]]
            /\ error' = Some("GROQ_API_KEY is not configured")
  /\ UNCHANGED <<userOps, deletedIds, notes, stored, loading, calVars, GROQ_API_KEY, load,
                 check, alert, srvVars, searchResult, discoverVars, gcal>>

\* structureText called by a consumer of the context other than the modal.
structureText(p, text) == structureTextCall(p, text) /\ UNCHANGED modal

\* A voice pipeline that sends the audio without looking for a credential.
structureVoiceSendsWithoutKey(p) ==
  /\ cap[p].pc = "idle"
  /\ \A q \in 1..(p - 1) : cap[q].pc # "idle"
  /\ cap' = [cap EXCEPT ![p] =
       [Closure(@) EXCEPT !.pc = "transcribing", !.noteType = "voice",
                          !.log = Append(@, "transcription")]]
  /\ UNCHANGED <<userOps, deletedIds, storeVars, calVars, GROQ_API_KEY, load,
                 check, alert, srvVars, searchResult, auxVars>>

\* structureVoice(audioUri): api.transcribeAudio is called at once.
structureVoiceCall(p) ==
  /\ cap[p].pc = "idle"
  /\ \A q \in 1..(p - 1) : cap[q].pc # "idle"
  /\ IF GROQ_API_KEY
       THEN /\ cap' = [cap EXCEPT ![p] =
                 [Closure(@) EXCEPT !.pc = "transcribing", !.noteType = "voice",
                                    !.log = Append(@, "transcription")]]
            /\ UNCHANGED error
       ELSE /\ cap' = [cap EXCEPT ![p] =
                 [Closure(@) EXCEPT !.pc = "failed", !.noteType = "voice"]]
            /\ error' = Some("GROQ_API_KEY is not configured")
  /\ UNCHANGED <<userOps, deletedIds, notes, stored, loading, calVars, GROQ_API_KEY, load,
                 check, alert, srvVars, searchResult, discoverVars, gcal>>

\* structureVoice called by a consumer of the context other than the modal.
structureVoice(p) == structureVoiceCall(p) /\ UNCHANGED modal

\* The transcription endpoint answers with a transcript: structureNote is
\* called with it.
TranscribeOk(p, text) ==
  /\ cap[p].pc = "transcribing"
  /\ cap' = [cap EXCEPT ![p].pc = "structuring", ![p].rawText = text,
                        ![p].log = Append(@, "completion")]
  /\ UNCHANGED <<userOps, deletedIds, storeVars, calVars, GROQ_API_KEY, load, check, alert,
                 srvVars, searchResult, auxVars>>

\* A voice pipeline that structures an empty text when transcription fails.
TranscribeFailStructuresAnyway(p, message) ==
  /\ cap[p].pc = "transcribing"
  /\ cap' = [cap EXCEPT ![p].pc = "structuring", ![p].rawText = <<>>,
                        ![p].log = Append(@, "completion")]
  /\ UNCHANGED <<userOps, deletedIds, storeVars, calVars, GROQ_API_KEY, load, check, alert,
                 srvVars, searchResult, auxVars>>

\* transcribeAudio rejects (non-success status, thrown network error).
TranscribeFail(p, message) ==
  /\ cap[p].pc = "transcribing"
  /\ cap' = [cap EXCEPT ![p].pc = "failed"]
  /\ error' = Some(message)
  /\ UNCHANGED <<userOps, deletedIds, notes, stored, loading, calVars, GROQ_API_KEY, load,
                 check, alert, srvVars, searchResult, auxVars>>

StructureFailures == {"Failed to structure note"}

\* A structureNote failure after which a fallback note is saved all the same.
StructureFailSavesFallback(p, message) ==
  /\ cap[p].pc = "structuring"
  /\ LET note == [id |-> generateId(p), originalText |-> cap[p].rawText,
                  title |-> sUntitled, content |-> cap[p].rawText,
                  tags |-> <<>>, category |-> "other", eventDate |-> None,
                  eventTime |-> None, createdAt |-> now,
                  noteType |-> cap[p].noteType, updatedAt |-> None]
     IN  /\ notes' = addNoteUpdated(note, cap[p].notes)
         /\ stored' = Some(notes')
  /\ cap' = [cap EXCEPT ![p].pc = "failed"]
  /\ error' = Some(message)
  /\ UNCHANGED <<userOps, deletedIds, loading, calVars, GROQ_API_KEY, load, check, alert,
                 srvVars, searchResult, auxVars>>

\* structureNote rejects (non-success status, malformed JSON, network error).
StructureFail(p, message) ==
  /\ cap[p].pc = "structuring"
  /\ cap' = [cap EXCEPT ![p].pc = "failed"]
  /\ error' = Some(message)
  /\ UNCHANGED <<userOps, deletedIds, notes, stored, loading, calVars, GROQ_API_KEY, load,
                 check, alert, srvVars, searchResult, auxVars>>

\* structureNote resolves with a Note and addNote(structured) runs up to its
\* first await: setNotes(updatedNotes) and the AsyncStorage.setItem request,
\* which the storage serves in request order (writeOk: whether it succeeds).
StructureOk(p, structured, writeOk) ==
  /\ cap[p].pc = "structuring"
  /\ LET note == StructuredNote(p, cap[p].rawText, cap[p].noteType, structured)
         updatedNotes == addNoteUpdated(note, cap[p].notes)
     IN  /\ notes' = updatedNotes
         /\ stored' = IF writeOk THEN Some(updatedNotes) ELSE stored
         /\ cap' = [cap EXCEPT ![p].pc = "saving", ![p].note = Some(note),
                               ![p].writeOk = writeOk, ![p].notes = <<>>,
                               ![p].rawText = <<>>,
                               ![p].log = Append(@, "addNote")]
  /\ UNCHANGED <<userOps, deletedIds, error, loading, calVars, GROQ_API_KEY, load, check, alert,
                 srvVars, searchResult, auxVars>>

\* Notes a consumer of useNotes() passes to addNote: one that carries the
\* id of a stored note, one that does not.
ApiNotes ==
  { [oldNote1 EXCEPT !.title = sPlan, !.content = sWork],
    [oldNote2 EXCEPT !.id = generateId(1), !.category = "event"] }

\* addNote(note), called by a consumer of the context with the closure of
\* the current render; it runs up to its first await as in StructureOk.
addNote(p, note, writeOk) ==
  /\ cap[p].pc = "idle"
  /\ \A q \in 1..(p - 1) : cap[q].pc # "idle"
  /\ LET updatedNotes == addNoteUpdated(note, notes)
     IN  /\ notes' = updatedNotes
         /\ stored' = IF writeOk THEN Some(updatedNotes) ELSE stored
         /\ cap' = [cap EXCEPT ![p] =
              [Closure(@) EXCEPT !.pc = "saving", !.note = Some(note),
                                 !.writeOk = writeOk, !.notes = <<>>,
                                 !.log = Append(@, "addNote")]]
  /\ UNCHANGED <<userOps, deletedIds, error, loading, calVars, GROQ_API_KEY, load, check,
                 alert, srvVars, searchResult, auxVars>>

\* saveNotesLocally rejects: addNote and then structureText set the error
\* and rethrow.
SaveFail(p) ==
  /\ cap[p].pc = "saving"
  /\ ~cap[p].writeOk
  /\ cap' = [cap EXCEPT ![p].pc = "failed"]
  /\ error' = IF cap[p].noteType = "none"
                THEN Some("Failed to save note")
                ELSE Some("storage write failed")
  /\ UNCHANGED <<userOps, deletedIds, notes, stored, loading, calVars, GROQ_API_KEY, load,
                 check, alert, srvVars, searchResult, auxVars>>

\* saveNotesLocally resolves and createCalendarEventIfNeeded(note) runs up
\* to its first await; createEventFromNote returns at once when the adapter
\* holds no token, and sends the create-event request otherwise.
SaveOk(p) ==
  /\ cap[p].pc = "saving"
  /\ cap[p].writeOk
  /\ LET note == The(cap[p].note)
     IN  IF needsCalendarEvent(cap[p].isCalendarConnected, note)
           THEN IF IsSome(tokens)
                  THEN cap' = [cap EXCEPT ![p].pc = "calendar",
                                 ![p].log = @ \o <<"createEventFromNote", "events">>]
                  ELSE cap' = [cap EXCEPT ![p].pc = "done",
                                 ![p].log = Append(@, "createEventFromNote")]
           ELSE cap' = [cap EXCEPT ![p].pc = "done"]
  /\ UNCHANGED <<userOps, deletedIds, storeVars, calVars, GROQ_API_KEY, load, check, alert,
                 srvVars, searchResult, auxVars>>

CalendarOutcomes == {"ok", "401", "rejected", "network"}

\* A sync whose failure surfaces as the store's error.
CalendarSettledSurfacesError(p, outcome, removeOk) ==
  /\ cap[p].pc = "calendar"
  /\ outcome # "401" => removeOk
  /\ cap' = [cap EXCEPT ![p].pc = IF outcome = "ok" THEN "done" ELSE "failed"]
  /\ error' = IF outcome = "ok" THEN error ELSE Some("Failed to save note")
  /\ tokens' = IF outcome = "401" THEN None ELSE tokens
  /\ storedTokens' = IF outcome = "401" /\ removeOk THEN None ELSE storedTokens
  /\ UNCHANGED <<userOps, deletedIds, notes, stored, loading, isCalendarConnected,
                 GROQ_API_KEY, load, check, alert, srvVars, searchResult, auxVars>>

\* The create-event request settles. On 401 the adapter clears its tokens
\* (removeOk: whether AsyncStorage.removeItem succeeds); every failure is
\* returned as {success: false}, which the context only logs.
CalendarSettled(p, outcome, removeOk) ==
  /\ cap[p].pc = "calendar"
  /\ outcome # "401" => removeOk
  /\ cap' = [cap EXCEPT ![p].pc = "done"]
  /\ tokens' = IF outcome = "401" THEN None ELSE tokens
  /\ storedTokens' = IF outcome = "401" /\ removeOk THEN None ELSE storedTokens
  /\ UNCHANGED <<userOps, deletedIds, storeVars, isCalendarConnected, GROQ_API_KEY, load,
                 check, alert, srvVars, searchResult, auxVars>>

\* loadNotes settles: setNotes(JSON.parse(stored)) when the key held a value.
LoadOk ==
  /\ load.pc = "pending"
  /\ notes' = IF IsSome(load.val) THEN The(load.val) ELSE notes
  /\ loading' = FALSE
  /\ load' = [pc |-> "idle", val |-> None]
  /\ UNCHANGED <<userOps, deletedIds, stored, error, calVars, GROQ_API_KEY, check, alert,
                 cap, srvVars, searchResult, auxVars>>

\* AsyncStorage.getItem rejects or JSON.parse throws.
LoadFail ==
  /\ load.pc = "pending"
  /\ error' = Some("Failed to load notes")
  /\ loading' = FALSE
  /\ load' = [pc |-> "idle", val |-> None]
  /\ UNCHANGED <<userOps, deletedIds, notes, stored, calVars, GROQ_API_KEY, check, alert,
                 cap, srvVars, searchResult, auxVars>>

\* refreshNotes (pull to refresh): loadNotes again.
refreshNotes ==
  /\ userOps < MaxUserOps
  /\ userOps' = userOps + 1
  /\ UNCHANGED deletedIds
  /\ load.pc = "idle"
  /\ loading' = TRUE
  /\ load' = [pc |-> "pending", val |-> stored]
  /\ UNCHANGED <<notes, stored, error, calVars, GROQ_API_KEY, check,
                 alert, cap, srvVars, searchResult, auxVars>>

\* checkCalendarConnection settles: isConnected() has loaded the tokens
\* (a read error is caught and gives null).
checkCalendarConnection ==
  /\ check.pc = "pending"
  /\ tokens' = IF IsSome(check.val) THEN check.val ELSE tokens
  /\ isCalendarConnected' = IsSome(check.val)
  /\ check' = [pc |-> "done", val |-> None]
  /\ UNCHANGED <<userOps, deletedIds, storeVars, storedTokens, GROQ_API_KEY, load, alert,
                 cap, srvVars, searchResult, auxVars>>

\* connectCalendar(accessToken): saveTokens, then setIsCalendarConnected(true)
\* unless the write rejected.
connectCalendar(writeOk) ==
  /\ userOps < MaxUserOps
  /\ userOps' = userOps + 1
  /\ UNCHANGED deletedIds
  /\ tokens' = Some(theToken)
  /\ storedTokens' = IF writeOk THEN Some(theToken) ELSE storedTokens
  /\ isCalendarConnected' = IF writeOk THEN TRUE ELSE isCalendarConnected
  /\ UNCHANGED <<storeVars, GROQ_API_KEY, load, check, alert, cap,
                 srvVars, searchResult, auxVars>>

\* disconnectCalendar(): clearTokens, then setIsCalendarConnected(false)
\* unless the removal rejected.
disconnectCalendar(removeOk) ==
  /\ userOps < MaxUserOps
  /\ userOps' = userOps + 1
  /\ UNCHANGED deletedIds
  /\ tokens' = None
  /\ storedTokens' = IF removeOk THEN None ELSE storedTokens
  /\ isCalendarConnected' = IF removeOk THEN FALSE ELSE isCalendarConnected
  /\ UNCHANGED <<storeVars, GROQ_API_KEY, load, check, alert, cap,
                 srvVars, searchResult, auxVars>>

NoteIds == {1, 2} \cup {generateId(p) : p \in Pids}

\* NoteDetailModal.handleDelete: the alert's Delete button keeps the
\* deleteNote of the render in which the alert was raised.
handleDelete(noteId) ==
  /\ userOps < MaxUserOps
  /\ userOps' = userOps + 1
  /\ UNCHANGED deletedIds
  /\ alert = None
  /\ noteId \in Ids(notes)
  /\ alert' = Some([noteId |-> noteId, notes |-> notes])
  /\ UNCHANGED <<storeVars, calVars, GROQ_API_KEY, load, check, cap,
                 srvVars, searchResult, auxVars>>

cancelDelete ==
  /\ alert # None
  /\ alert' = None
  /\ UNCHANGED <<userOps, deletedIds, storeVars, calVars, GROQ_API_KEY, load, check, cap,
                 srvVars, searchResult, auxVars>>

\* deleteNote(noteId), from the alert's Delete button.
deleteNote(writeOk) ==
  /\ alert # None
  /\ LET noteId == The(alert).noteId
         updatedNotes == deleteNoteUpdated(noteId, The(alert).notes)
     IN  /\ notes' = updatedNotes
         /\ stored' = IF writeOk THEN Some(updatedNotes) ELSE stored
  /\ error' = IF writeOk THEN error ELSE Some("Failed to delete note")
  /\ alert' = None
  /\ deletedIds' = IF writeOk THEN deletedIds \cup {The(alert).noteId}
                             ELSE deletedIds
  /\ UNCHANGED <<userOps, loading, calVars, GROQ_API_KEY, load, check, cap,
                 srvVars, searchResult, auxVars>>

(***************************************************************************)
(* GoogleCalendarService, called by itself.                                *)
(***************************************************************************)
MaxAdapterCalls == 3

idleGcal ==
  [calls |-> 0, since |-> "none",
   conn |-> [pc |-> "idle"], ev |-> [pc |-> "idle"], res |-> [op |-> "none"]]

\* What the create-event request may settle with: a response (status, whether
\* its body parses as JSON, the message of its error object) or a thrown
\* network error.
CalendarResponses ==
  { [kind |-> "response", status |-> 200, json |-> TRUE, message |-> None],
    [kind |-> "response", status |-> 401, json |-> TRUE, message |-> Some("Forbidden")],
    [kind |-> "response", status |-> 401, json |-> FALSE, message |-> None],
    [kind |-> "response", status |-> 403, json |-> TRUE, message |-> Some("Forbidden")],
    [kind |-> "response", status |-> 403, json |-> TRUE, message |-> None],
    [kind |-> "throw", status |-> 0, json |-> FALSE, message |-> None] }

\* What createEventFromNote may return.
NotConnected == [success |-> FALSE, error |-> "Not connected to Google Calendar"]
NoEventDate == [success |-> FALSE, error |-> "No event date specified"]
SessionExpired ==
  [success |-> FALSE, error |-> "Session expired. Please reconnect Google Calendar."]
Caught == [success |-> FALSE, error |-> "error.message"]
Created == [success |-> TRUE, error |-> "none"]

RemoteError(message) ==
  [success |-> FALSE,
   error |-> IF IsSome(message) THEN The(message) ELSE "Failed to create event"]

\* A 401 handled like any other rejection.
createEventSettledKeepsToken(response, removeOk) ==
  [clear |-> FALSE,
   result |-> IF response.kind = "throw" \/ ~response.json THEN Caught
              ELSE IF response.status = 200 THEN Created
              ELSE RemoteError(response.message)]

\* createEventFromNote after its fetch has settled: whether clearTokens is
\* called, and what is returned. response.json() is awaited before the
\* status is looked at, and anything thrown inside the try is caught.
createEventSettled(response, removeOk) ==
  IF response.kind = "throw" THEN [clear |-> FALSE, result |-> Caught]
  ELSE IF response.status # 200
    THEN IF ~response.json THEN [clear |-> FALSE, result |-> Caught]
         ELSE IF response.status = 401
           THEN [clear |-> TRUE,
                 result |-> IF removeOk THEN SessionExpired ELSE Caught]
           ELSE [clear |-> FALSE, result |-> RemoteError(response.message)]
    ELSE IF response.json THEN [clear |-> FALSE, result |-> Created]
         ELSE [clear |-> FALSE, result |-> Caught]

\* setTokensFromAuth(accessToken): saveTokens sets this.tokens and writes
\* the token to AsyncStorage; the call rejects when the write does.
setTokensFromAuth(writeOk) ==
  /\ gcal.calls < MaxAdapterCalls
  /\ tokens' = Some(theToken)
  /\ storedTokens' = IF writeOk THEN Some(theToken) ELSE storedTokens
  /\ gcal' = [gcal EXCEPT !.calls = @ + 1,
                          !.since = IF writeOk THEN "connect" ELSE "connect rejected",
                          !.res = [op |-> "setTokensFromAuth", resolved |-> writeOk]]
  /\ UNCHANGED <<storeVars, isCalendarConnected, procVars, srvVars,
                 searchResult, discoverVars, modal>>

\* clearTokens(): this.tokens = null and the key is removed from
\* AsyncStorage; the call rejects when the removal does.
clearTokens(removeOk) ==
  /\ gcal.calls < MaxAdapterCalls
  /\ tokens' = None
  /\ storedTokens' = IF removeOk THEN None ELSE storedTokens
  /\ gcal' = [gcal EXCEPT !.calls = @ + 1,
                          !.since = IF removeOk THEN "disconnect"
                                                ELSE "disconnect rejected",
                          !.res = [op |-> "clearTokens", resolved |-> removeOk]]
  /\ UNCHANGED <<storeVars, isCalendarConnected, procVars, srvVars,
                 searchResult, discoverVars, modal>>

\* isConnected(): loadTokens issues its read of AsyncStorage (readOk: whether
\* the read succeeds).
isConnected(readOk) ==
  /\ gcal.calls < MaxAdapterCalls
  /\ gcal.conn.pc = "idle"
  /\ gcal' = [gcal EXCEPT !.calls = @ + 1,
                          !.conn = [pc |-> "reading", val |-> storedTokens,
                                    readOk |-> readOk, since |-> gcal.since]]
  /\ UNCHANGED <<storeVars, calVars, procVars, srvVars, searchResult,
                 discoverVars, modal>>

\* An isConnected that answers from the token held in memory.
loadTokensFromMemory ==
  /\ gcal.conn.pc = "reading"
  /\ gcal' = [gcal EXCEPT !.conn = [pc |-> "idle"],
                          !.res = [op |-> "isConnected",
                                   result |-> IsSome(tokens),
                                   val |-> gcal.conn.val,
                                   readOk |-> gcal.conn.readOk,
                                   since |-> gcal.conn.since]]
  /\ UNCHANGED <<storeVars, calVars, procVars, srvVars, searchResult,
                 discoverVars, modal>>

\* loadTokens settles: this.tokens is set when the key held a value; a read
\* error is caught and gives null. isConnected returns !!tokens?.accessToken.
loadTokens ==
  /\ gcal.conn.pc = "reading"
  /\ LET found == gcal.conn.readOk /\ IsSome(gcal.conn.val)
     IN  /\ tokens' = IF found THEN gcal.conn.val ELSE tokens
         /\ gcal' = [gcal EXCEPT !.conn = [pc |-> "idle"],
                                 !.res = [op |-> "isConnected",
                                          result |-> found,
                                          val |-> gcal.conn.val,
                                          readOk |-> gcal.conn.readOk,
                                          since |-> gcal.conn.since]]
  /\ UNCHANGED <<storeVars, isCalendarConnected, storedTokens, procVars,
                 srvVars, searchResult, discoverVars, modal>>

\* time.split(":")
RECURSIVE split(_, _)
split(s, sep) ==
  IF \E i \in 1..Len(s) : s[i] = sep
    THEN LET i == CHOOSE i \in 1..Len(s) :
                    s[i] = sep /\ \A j \in 1..(i - 1) : s[j] # sep
         IN  <<SubSeq(s, 1, i - 1)>> \o split(SubSeq(s, i + 1, Len(s)), sep)
    ELSE <<s>>

\* Number(s) of a string of decimal digits.
RECURSIVE Number(_)
Number(s) ==
  IF s = <<>> THEN 0
  ELSE Number(SubSeq(s, 1, Len(s) - 1)) * 10
         + (CHOOSE d \in 0..9 : ToString(d) = s[Len(s)])

\* String(n) of a natural number.
RECURSIVE String(_)
String(n) ==
  IF n < 10 THEN <<ToString(n)>>
  ELSE String(n \div 10) \o <<ToString(n % 10)>>

RECURSIVE padStart(_, _, _)
padStart(s, n, c) == IF Len(s) >= n THEN s ELSE padStart(<<c>> \o s, n, c)

\* addHours(time, hours): the hour is taken modulo 24, the minutes kept.
addHours(time, hours) ==
  LET hm == split(time, ":")
      h == Number(hm[1])
      m == Number(hm[2])
      newHour == (h + hours) % 24
  IN  padStart(String(newHour), 2, "0") \o <<":">> \o padStart(String(m), 2, "0")

\* note.eventEndTime, a field only some notes have.
eventEndTime(note) ==
  IF "eventEndTime" \in DOMAIN note THEN note.eventEndTime ELSE None

\* The start and end of the event built for a note with an eventDate: a
\* timed event when the note has an eventTime, else an all-day event.
calendarEvent(note) ==
  IF IsSome(note.eventTime) /\ The(note.eventTime) # <<>>
    THEN LET startDateTime ==
               The(note.eventDate) \o <<"T">> \o The(note.eventTime)
                 \o <<":", "0", "0">>
             endTime == orElse(eventEndTime(note),
                               addHours(The(note.eventTime), 1))
             endDateTime ==
               The(note.eventDate) \o <<"T">> \o endTime \o <<":", "0", "0">>
         IN  [timed |-> TRUE, start |-> startDateTime, end |-> endDateTime]
    ELSE [timed |-> FALSE, start |-> The(note.eventDate),
          end |-> The(note.eventDate)]

\* Times of day a note may carry.
EventTimes ==
  { sTime, <<"0", "9", ":", "0", "5">>, <<"2", "3", ":", "0", "0">>,
    <<"2", "3", ":", "3", "0">> }

\* Notes handed to createEventFromNote: one without an eventDate, one with
\* a date only, some with a time of day, one with an end time of its own.
CalendarNotes ==
  {oldNote1, oldNote2}
    \cup {[oldNote2 EXCEPT !.eventTime = Some(t)] : t \in EventTimes}
    \cup {[oldNote2 EXCEPT !.eventTime = Some(sTime)]
            @@ ("eventEndTime" :> Some(<<"1", "7", ":", "3", "0">>))}

\* An adapter that sends the request for a note without a date.
createEventFromNoteSendsUndated(note) ==
  /\ gcal.calls < MaxAdapterCalls
  /\ gcal.ev.pc = "idle"
  /\ IF ~IsSome(tokens)
       THEN gcal' = [gcal EXCEPT !.calls = @ + 1,
                       !.res = [op |-> "createEventFromNote", note |-> note,
                                tokens |-> tokens, requestSent |-> FALSE,
                                result |-> NotConnected]]
       ELSE gcal' = [gcal EXCEPT !.calls = @ + 1,
                       !.ev = [pc |-> "sent", note |-> note, tokens |-> tokens]]
  /\ UNCHANGED <<storeVars, calVars, procVars, srvVars, searchResult,
                 discoverVars, modal>>

\* createEventFromNote(note) up to its first await: the two early returns,
\* or the create-event request is sent with the token held in memory.
createEventFromNote(note) ==
  /\ gcal.calls < MaxAdapterCalls
  /\ gcal.ev.pc = "idle"
  /\ IF ~IsSome(tokens)
       THEN gcal' = [gcal EXCEPT !.calls = @ + 1,
                       !.res = [op |-> "createEventFromNote", note |-> note,
                                tokens |-> tokens, requestSent |-> FALSE,
                                result |-> NotConnected]]
       ELSE IF ~IsSome(note.eventDate)
         THEN gcal' = [gcal EXCEPT !.calls = @ + 1,
                         !.res = [op |-> "createEventFromNote", note |-> note,
                                  tokens |-> tokens, requestSent |-> FALSE,
                                  result |-> NoEventDate]]
         ELSE gcal' = [gcal EXCEPT !.calls = @ + 1,
                         !.ev = [pc |-> "sent", note |-> note,
                                 tokens |-> tokens,
                                 event |-> calendarEvent(note)]]
  /\ UNCHANGED <<storeVars, calVars, procVars, srvVars, searchResult,
                 discoverVars, modal>>

\* The create-event request settles (removeOk: whether the removal that
\* clearTokens asks for succeeds).
createEventResponse(response, removeOk) ==
  /\ gcal.ev.pc = "sent"
  /\ LET s == createEventSettled(response, removeOk)
     IN  /\ s.clear \/ removeOk
         /\ tokens' = IF s.clear THEN None ELSE tokens
         /\ storedTokens' = IF s.clear /\ removeOk THEN None ELSE storedTokens
         /\ gcal' = [gcal EXCEPT
                       !.ev = [pc |-> "idle"],
                       !.since = IF s.clear
                                   THEN IF removeOk THEN "expired"
                                                    ELSE "expiry rejected"
                                   ELSE @,
                       !.res = [op |-> "createEventFromNote",
                                note |-> gcal.ev.note, tokens |-> gcal.ev.tokens,
                                requestSent |-> TRUE, response |-> response,
                                removeOk |-> removeOk, result |-> s.result]]
  /\ UNCHANGED <<storeVars, isCalendarConnected, procVars, srvVars,
                 searchResult, discoverVars, modal>>

(***************************************************************************)
(* CreateNoteModal, mounted by the home screen for as long as the screen   *)
(* is: closing it hides it and resets its state, the component stays.      *)
(***************************************************************************)
\* What the user may type into the text step.
ModalTexts == {<<>>, <<" ">>, sPlan}

\* A handler whose call has settled and whose continuation has yet to run.
\* The continuation is a microtask: it runs before any further event.
ContinuationPending ==
  \E p \in Pids :
    modal.handlers[p].pc = "awaiting" /\ cap[p].pc \in {"done", "failed"}

\* QuickNoteInput onPress: setCreateModalVisible(true).
openModal ==
  /\ ~modal.visible
  /\ modal' = [modal EXCEPT !.visible = TRUE]
  /\ UNCHANGED <<srvVars, ctxVars, searchResult, discoverVars, gcal>>

\* The buttons of the choice step, and Back of the text and voice steps.
setMode(mode) ==
  /\ modal.visible
  /\ \/ modal.mode = "choice" /\ mode \in {"text", "voice"}
     \/ modal.mode \in {"text", "voice"} /\ mode = "choice"
  /\ modal' = [modal EXCEPT !.mode = mode]
  /\ UNCHANGED <<srvVars, ctxVars, searchResult, discoverVars, gcal>>

\* onChangeText of the text step.
setTextInput(text) ==
  /\ modal.visible
  /\ modal.mode = "text"
  /\ modal' = [modal EXCEPT !.textInput = text]
  /\ UNCHANGED <<srvVars, ctxVars, searchResult, discoverVars, gcal>>

\* resetModal() as handleClose calls it.
resetModal ==
  [modal EXCEPT !.mode = "choice", !.textInput = <<>>, !.createdNote = None,
                !.error = None, !.processingMessage = ""]

\* handleClose: resetModal(); onClose(). A call in flight goes on.
handleClose ==
  /\ modal.visible
  /\ modal' = [resetModal EXCEPT
                 !.visible = FALSE,
                 !.handlers = [p \in Pids |->
                    IF modal.handlers[p].pc = "awaiting"
                      THEN [modal.handlers[p] EXCEPT !.dismissed = TRUE]
                      ELSE modal.handlers[p]]]
  /\ UNCHANGED <<srvVars, ctxVars, searchResult, discoverVars, gcal>>

\* handleTextSubmit up to its await: nothing for a blank text; else the
\* processing step is shown and structureText(textInput) is called.
handleTextSubmit(p) ==
  /\ modal.visible
  /\ modal.mode = "text"
  /\ IF trim(modal.textInput) = <<>>
       THEN UNCHANGED vars
       ELSE /\ structureTextCall(p, modal.textInput)
            /\ modal' = [modal EXCEPT
                 !.mode = "processing",
                 !.processingMessage = "Structuring your thoughts...",
                 !.error = None,
                 !.handlers[p] = [pc |-> "awaiting", kind |-> "text",
                                  text |-> modal.textInput,
                                  dismissed |-> FALSE]]

\* handleVoiceRecording(uri) up to its await.
handleVoiceRecording(p) ==
  /\ modal.visible
  /\ modal.mode = "voice"
  /\ structureVoiceCall(p)
  /\ modal' = [modal EXCEPT
       !.mode = "processing",
       !.processingMessage = "Transcribing your voice...",
       !.error = None,
       !.handlers[p] = [pc |-> "awaiting", kind |-> "voice", text |-> <<>>,
                        dismissed |-> FALSE]]

\* err.message || fallback, for the error the context has just thrown.
errMessage(fallback) ==
  IF IsSome(error) /\ The(error) # "" THEN The(error) ELSE fallback

\* The rest of handleTextSubmit / handleVoiceRecording once the awaited call
\* has settled: the preview of the note, or the error on the input step.
handlerSettled(p) ==
  /\ modal.handlers[p].pc = "awaiting"
  /\ cap[p].pc \in {"done", "failed"}
  /\ modal' =
       IF cap[p].pc = "done"
         THEN [modal EXCEPT !.createdNote = cap[p].note, !.mode = "preview",
                            !.handlers[p].pc = "settled"]
         ELSE IF modal.handlers[p].kind = "text"
           THEN [modal EXCEPT !.error = Some(errMessage("Failed to structure note")),
                              !.mode = "text", !.handlers[p].pc = "settled"]
           ELSE [modal EXCEPT !.error = Some(errMessage("Failed to process voice note")),
                              !.mode = "voice", !.handlers[p].pc = "settled"]
  /\ UNCHANGED <<srvVars, ctxVars, searchResult, discoverVars, gcal>>

(***************************************************************************)
(* Searching bounded collections.                                          *)
(***************************************************************************)
MaxSearchLen == 2

sWORK == <<"W", "O", "R", "K">>
swork == <<"w", "o", "r", "k">>

searchNote(id, title, content, originalText, tags) ==
  [id |-> id, originalText |-> originalText, title |-> title,
   content |-> content, tags |-> tags, category |-> "other",
   eventDate |-> None, eventTime |-> None, createdAt |-> 1,
   noteType |-> "text", updatedAt |-> None]

\* Notes of the context that match "work" by one field each, or not at all.
SearchNotePool ==
  { searchNote(1, sWork, sTea, sPlan, <<>>),
    searchNote(2, sTea, sPlan, sTea, <<sPlan, sWork>>),
    searchNote(3, sPlan, <<"a", "W", "O", "R", "K", "s">>, sTea, <<sTea>>),
    searchNote(4, sPlan, sTea, swork, <<>>),
    searchNote(5, sTea, <<"t", " ", " ", " ", "e">>, sPlan, <<sTea>>) }

serverSearchNote(id, title, summary, structuredContent, originalText, tags) ==
  [id |-> id, title |-> title, summary |-> summary,
   structuredContent |-> structuredContent, originalText |-> originalText,
   tags |-> tags, noteType |-> "text", createdAt |-> Some(1),
   updatedAt |-> Some(1)]

\* Notes of the backend store, whose fields may be absent.
ServerSearchNotePool ==
  { serverSearchNote(1, Some(sTea), None, Some(sWORK), None, None),
    serverSearchNote(2, None, Some(<<"t", " ", "e">>), None, Some(sPlan),
                     Some(<<sWork>>)),
    serverSearchNote(3, Some(sPlan), Some(sTea), None, Some(sTea),
                     Some(<<>>)) }

\* The collections of at most MaxSearchLen notes of a pool, ids unique.
Collections(pool) ==
  UNION { { c \in [1..n -> pool] :
              \A i, j \in 1..n : c[i].id = c[j].id => i = j } :
          n \in 0..MaxSearchLen }

Queries ==
  { <<>>, <<" ">>, <<" ", " ", " ">>, <<"\t", "\n">>, swork, sWORK,
    <<"O", "r">>, <<"e", "a">>, <<"z">>, <<"e", " ">> }

\* A call of the context's searchNotes(query).
SearchNotes(query) ==
  /\ searchResult' = [op |-> "searchNotes", query |-> Some(query),
                      result |-> searchNotes(notes, query)]
  /\ UNCHANGED <<srvVars, ctxVars, auxVars>>

\* A request GET /api/notes/search?q=...
GetSearch(q) ==
  /\ searchResult' = [op |-> "GET /api/notes/search", query |-> q,
                      result |-> serverSearch(serverNotes, q)]
  /\ UNCHANGED <<srvVars, ctxVars, auxVars>>

(***************************************************************************)
(* Discover items (NotesProvider.generateDiscoverItems).                   *)
(***************************************************************************)
MaxDiscoverNotes == 6

\* s.slice(0, n)
slice(s, n) == SubSeq(s, 1, IF Len(s) < n THEN Len(s) ELSE n)

\* The tags of the notes in order, each with the id of its note
\* (notes.forEach((note) => note.tags?.forEach(...))).
RECURSIVE flatTags(_)
flatTags(ns) ==
  IF ns = <<>> THEN <<>>
  ELSE LET n == Head(ns)
       IN  [k \in 1..Len(n.tags) |-> [tag |-> n.tags[k], id |-> n.id]]
             \o flatTags(Tail(ns))

\* tagCounts after the pairs of `flat` have been entered: one entry per tag,
\* in the order the tags were first seen (the key order of Object.entries),
\* with the ids pushed for it.
RECURSIVE tagCountsFrom(_, _)
tagCountsFrom(acc, flat) ==
  IF flat = <<>> THEN acc
  ELSE LET e == Head(flat)
           at == {i \in 1..Len(acc) : acc[i].tag = e.tag}
       IN  IF at = {}
             THEN tagCountsFrom(Append(acc, [tag |-> e.tag, ids |-> <<e.id>>]),
                                Tail(flat))
             ELSE LET i == CHOOSE x \in at : TRUE
                  IN  tagCountsFrom([acc EXCEPT ![i].ids = Append(@, e.id)],
                                    Tail(flat))

tagCounts(ns) == tagCountsFrom(<<>>, flatTags(ns))

\* tagCounts[tag].length
tagCount(ns, tag) ==
  LET tc == tagCounts(ns)
      at == {i \in 1..Len(tc) : tc[i].tag = tag}
  IN  IF at = {} THEN 0 ELSE Len(tc[CHOOSE x \in at : TRUE].ids)

\* Object.entries(tagCounts).filter(([_, ids]) => ids.length >= 2).slice(0, 2)
threads(ns) == slice(SelectSeq(tagCounts(ns), LAMBDA e : Len(e.ids) >= 2), 2)

\* An explore item for the first tag, whatever its count.
unusedTagsAnyCount(ns) == slice(flatTags(ns), 1)

\* notes.flatMap((n) => n.tags || []).filter(count === 1).slice(0, 1)
unusedTags(ns) ==
  slice(SelectSeq(flatTags(ns), LAMBDA e : tagCount(ns, e.tag) = 1), 1)

\* The values Math.floor(Math.random() * (notes.length - 3)) may take.
RandomPicks(ns) == IF Len(ns) > 5 THEN 0..(Len(ns) - 4) ELSE {0}

\* An index taken among the most recent notes.
oldNoteIndexFromStart(ns, r) == r + 1

\* Math.floor(Math.random() * (notes.length - 3)) + 3, as an index that
\* counts from 1.
oldNoteIndex(ns, r) == r + 3 + 1

sResurface == <<"r", "e", "s", "u", "r", "f", "a", "c", "e", "-">>
sThread == <<"t", "h", "r", "e", "a", "d", "-">>
sExplore == <<"e", "x", "p", "l", "o", "r", "e", "-">>

\* A note id as it is appended to a string.
idString(id) == <<ToString(id)>>

\* The list `items` that generateDiscoverItems builds, before it is cut.
\* count is the number that the description of a thread item names.
discoverItemsBuilt(ns, r) ==
  LET resurfacing ==
        IF Len(ns) > 5
          THEN LET oldNote == ns[oldNoteIndex(ns, r)]
               IN  << [id |-> sResurface \o idString(oldNote.id),
                       type |-> "resurfacing", subject |-> oldNote.title,
                       noteIds |-> Some(<<oldNote.id>>), count |-> 0] >>
          ELSE <<>>
      th == threads(ns)
      threadItems ==
        [k \in 1..Len(th) |->
           [id |-> sThread \o th[k].tag,
            type |-> "thread", subject |-> th[k].tag,
            noteIds |-> Some(th[k].ids), count |-> Len(th[k].ids)]]
      un == unusedTags(ns)
      explore ==
        IF Len(un) > 0
          THEN << [id |-> sExplore \o un[1].tag,
                   type |-> "explore", subject |-> un[1].tag,
                   noteIds |-> None, count |-> 0] >>
          ELSE <<>>
  IN  resurfacing \o threadItems \o explore

\* A generator that publishes the whole list.
discoverItemsUncut(ns, r) == discoverItemsBuilt(ns, r)

\* setDiscoverItems(items.slice(0, 3))
discoverItemsOf(ns, r) == slice(discoverItemsBuilt(ns, r), 3)

\* The effect on [notes]: generateDiscoverItems() publishes the items
\* computed from the notes of the render.
generateDiscoverItems(r) ==
  /\ r \in RandomPicks(notes)
  /\ discoverItems' = discoverItemsOf(notes, r)
  /\ discoverFor' = notes
  /\ UNCHANGED <<srvVars, ctxVars, searchResult, gcal, modal>>

\* An effect that runs only when the collection has grown.
discoverEffectOnGrowth ==
  /\ Len(notes) > Len(discoverFor)
  /\ \E r \in RandomPicks(notes) : generateDiscoverItems(r)

\* useEffect(() => { generateDiscoverItems(); }, [notes]): after a render
\* whose notes are not the ones the effect last ran for, the effect runs.
\* (A setNotes with a collection equal to the last one also reruns it; that
\* run publishes one of the values the last run could publish.)
discoverEffect ==
  /\ discoverFor # notes
  /\ \E r \in RandomPicks(notes) : generateDiscoverItems(r)

\* Tag sequences of the notes of a collection; a sequence may repeat a tag.
TagLists == {<<>>, <<sWork>>, <<sPlan, sTea>>, <<sPlan, sPlan>>}

discoverNote(id, tags) ==
  [id |-> id, originalText |-> sTea, title |-> sTea, content |-> sTea,
   tags |-> tags, category |-> "other", eventDate |-> None,
   eventTime |-> None, createdAt |-> 1, noteType |-> "text",
   updatedAt |-> None]

\* The collections of at most MaxDiscoverNotes notes, ids unique.
DiscoverCollections ==
  UNION { { [i \in 1..n |-> discoverNote(i, tl[i])] : tl \in [1..n -> TagLists] } :
          n \in 0..MaxDiscoverNotes }

InitServer ==
  /\ serverNotes = <<>>
  /\ now = 1
  /\ uuidCount = 0
  /\ srvRes = [op |-> "none"]

\* The state after NotesProvider has mounted: both mount effects have
\* issued their reads of AsyncStorage.
InitContext ==
  /\ notes = <<>>
  /\ stored \in StoredAtStartup
  /\ error = None
  /\ loading = TRUE
  /\ isCalendarConnected = FALSE
  /\ tokens = None
  /\ storedTokens \in {None, Some(theToken)}
  /\ GROQ_API_KEY \in BOOLEAN
  /\ load = [pc |-> "pending", val |-> stored]
  /\ check = [pc |-> "pending", val |-> storedTokens]
  /\ alert = None
  /\ cap = [p \in Pids |-> idleCapture]
  /\ userOps = 0
  /\ deletedIds = {}

Init ==
  /\ InitServer
  /\ InitContext
  /\ searchResult = [op |-> "none"]
  /\ discoverItems = <<>>
  /\ discoverFor = <<>>
  /\ gcal = idleGcal
  /\ modal = closedModal

ServerIds == {1, 2, 3} \cup {10 + k : k \in 0..(MaxUuid - 1)}

NextServer ==
  \/ \E body \in Bodies : PostNote(body)
  \/ \E id \in ServerIds : DeleteServerNote(id)
  \/ Tick
  \/ \E rawText \in ServerRawTexts, noteType \in {"text", "voice"},
        structured \in ServerResponses :
       PostStructureNote(rawText, noteType, structured)

Next ==
  \/ \E p \in Pids, text \in RawTexts : structureText(p, text)
  \/ \E p \in Pids : structureVoice(p)
  \/ \E p \in Pids, text \in Transcripts : TranscribeOk(p, text)
  \/ \E p \in Pids : TranscribeFail(p, "Transcription failed")
  \/ \E p \in Pids, m \in StructureFailures : StructureFail(p, m)
  \/ \E p \in Pids, r \in Responses, ok \in BOOLEAN : StructureOk(p, r, ok)
  \/ \E p \in Pids : SaveFail(p)
  \/ \E p \in Pids : SaveOk(p)
  \/ \E p \in Pids, o \in CalendarOutcomes, ok \in BOOLEAN : CalendarSettled(p, o, ok)
  \/ LoadOk
  \/ LoadFail
  \/ refreshNotes
  \/ checkCalendarConnection
  \/ \E ok \in BOOLEAN : connectCalendar(ok)
  \/ \E ok \in BOOLEAN : disconnectCalendar(ok)
  \/ \E id \in NoteIds : handleDelete(id)
  \/ cancelDelete
  \/ \E ok \in BOOLEAN : deleteNote(ok)

\* The provider with the effect on [notes]: a text capture, loads and
\* deletions change the collection, and React runs the effect after the
\* render that follows each change.
NextEffect ==
  \/ \E text \in RawTexts : structureText(1, text)
  \/ \E m \in StructureFailures : StructureFail(1, m)
  \/ \E r \in Responses, ok \in BOOLEAN : StructureOk(1, r, ok)
  \/ SaveFail(1)
  \/ SaveOk(1)
  \/ LoadOk
  \/ LoadFail
  \/ refreshNotes
  \/ \E id \in NoteIds : handleDelete(id)
  \/ cancelDelete
  \/ \E ok \in BOOLEAN : deleteNote(ok)
  \/ discoverEffect

SpecEffect == Init /\ [][NextEffect]_vars /\ WF_vars(discoverEffect)

\* The capture modal over the provider: the continuations of the modal's
\* handlers, which run first, then the user's gestures on the modal and the
\* answers of the transcription and completion endpoints and of the storage.
NextModal ==
  \/ \E p \in Pids : handlerSettled(p)
  \/ ~ContinuationPending /\ openModal
  \/ \E mode \in {"choice", "text", "voice"} :
       ~ContinuationPending /\ setMode(mode)
  \/ \E text \in ModalTexts : ~ContinuationPending /\ setTextInput(text)
  \/ ~ContinuationPending /\ handleClose
  \/ \E p \in Pids : ~ContinuationPending /\ handleTextSubmit(p)
  \/ \E p \in Pids : ~ContinuationPending /\ handleVoiceRecording(p)
  \/ \E p \in Pids, text \in Transcripts :
       ~ContinuationPending /\ TranscribeOk(p, text)
  \/ \E p \in Pids :
       ~ContinuationPending /\ TranscribeFail(p, "Transcription failed")
  \/ \E p \in Pids, m \in StructureFailures :
       ~ContinuationPending /\ StructureFail(p, m)
  \/ \E p \in Pids, r \in Responses, ok \in BOOLEAN :
       ~ContinuationPending /\ StructureOk(p, r, ok)
  \/ \E p \in Pids : ~ContinuationPending /\ SaveFail(p)
  \/ \E p \in Pids : ~ContinuationPending /\ SaveOk(p)

SpecModal == Init /\ [][NextModal]_vars

\* A context and a backend that hold a bounded collection each.
InitSearch ==
  /\ serverNotes \in Collections(ServerSearchNotePool)
  /\ now = 1
  /\ uuidCount = 0
  /\ srvRes = [op |-> "none"]
  /\ notes \in Collections(SearchNotePool)
  /\ stored = Some(notes)
  /\ error = None
  /\ loading = FALSE
  /\ isCalendarConnected = FALSE
  /\ tokens = None
  /\ storedTokens = None
  /\ GROQ_API_KEY = TRUE
  /\ load = [pc |-> "idle", val |-> None]
  /\ check = [pc |-> "done", val |-> None]
  /\ alert = None
  /\ cap = [p \in Pids |-> idleCapture]
  /\ userOps = 0
  /\ deletedIds = {}
  /\ searchResult = [op |-> "none"]
  /\ discoverItems = <<>>
  /\ discoverFor = <<>>
  /\ gcal = idleGcal
  /\ modal = closedModal

NextSearch ==
  \/ \E query \in Queries : SearchNotes(query)
  \/ \E q \in {None} \cup {Some(query) : query \in Queries} : GetSearch(q)

\* The context as its consumers may call it: addNote with any note.
NextApi ==
  \/ \E p \in Pids, note \in ApiNotes, ok \in BOOLEAN : addNote(p, note, ok)
  \/ \E p \in Pids : SaveFail(p)
  \/ \E p \in Pids : SaveOk(p)
  \/ \E p \in Pids, o \in CalendarOutcomes, ok \in BOOLEAN : CalendarSettled(p, o, ok)
  \/ LoadOk
  \/ LoadFail
  \/ refreshNotes
  \/ checkCalendarConnection
  \/ \E ok \in BOOLEAN : connectCalendar(ok)
  \/ \E id \in NoteIds : handleDelete(id)
  \/ cancelDelete
  \/ \E ok \in BOOLEAN : deleteNote(ok)

SpecServer == Init /\ [][NextServer]_vars

SpecApi == Init /\ [][NextApi]_vars

SpecSearch == InitSearch /\ [][NextSearch]_vars

\* The calendar adapter as its callers may use it.
NextCalendar ==
  \/ \E ok \in BOOLEAN : setTokensFromAuth(ok)
  \/ \E ok \in BOOLEAN : clearTokens(ok)
  \/ \E ok \in BOOLEAN : isConnected(ok)
  \/ loadTokens
  \/ \E note \in CalendarNotes : createEventFromNote(note)
  \/ \E r \in CalendarResponses, ok \in BOOLEAN : createEventResponse(r, ok)

SpecCalendar == Init /\ [][NextCalendar]_vars

\* A provider that holds a bounded collection, whose effect has yet to run.
InitDiscover ==
  /\ InitServer
  /\ notes \in DiscoverCollections
  /\ stored = Some(notes)
  /\ error = None
  /\ loading = FALSE
  /\ isCalendarConnected = FALSE
  /\ tokens = None
  /\ storedTokens = None
  /\ GROQ_API_KEY = TRUE
  /\ load = [pc |-> "idle", val |-> None]
  /\ check = [pc |-> "done", val |-> None]
  /\ alert = None
  /\ cap = [p \in Pids |-> idleCapture]
  /\ userOps = 0
  /\ deletedIds = {}
  /\ searchResult = [op |-> "none"]
  /\ discoverItems = <<>>
  /\ discoverFor = <<>>
  /\ gcal = idleGcal
  /\ modal = closedModal

NextDiscover == \E r \in RandomPicks(notes) : generateDiscoverItems(r)

SpecDiscover == InitDiscover /\ [][NextDiscover]_vars

Spec == Init /\ [][Next]_vars

(***************************************************************************)
(* C1.  Store upsert.                                                      *)
(***************************************************************************)
\* The entry e holds the field values sent in body.
HoldsFieldsOf(e, body) ==
  /\ e.title = body.title
  /\ e.summary = body.summary
  /\ e.structuredContent = body.structuredContent
  /\ e.originalText = body.originalText
  /\ e.tags = body.tags
  /\ e.noteType = body.noteType

\* What POST /api/notes with `body` does to the store: an entry with the
\* id is replaced where it is, the others keep their index, and exactly one
\* entry has the id afterwards; otherwise the note is inserted at index 0.
\* `advanced(old, new)` relates the entry's updatedAt before and after.
UpsertEffect(body, advanced(_, _)) ==
  LET id == srvRes'.json.id
  IN  IF id \in Ids(serverNotes)
        THEN /\ Len(serverNotes') = Len(serverNotes)
             /\ \A i \in 1..Len(serverNotes) :
                  IF serverNotes[i].id = id
                    THEN /\ serverNotes'[i].id = id
                         /\ HoldsFieldsOf(serverNotes'[i], body)
                         /\ advanced(The(serverNotes[i].updatedAt),
                                     The(serverNotes'[i].updatedAt))
                    ELSE serverNotes'[i] = serverNotes[i]
             /\ CountId(serverNotes', id) = 1
        ELSE /\ Len(serverNotes') = Len(serverNotes) + 1
             /\ serverNotes'[1].id = id
             /\ HoldsFieldsOf(serverNotes'[1], body)
             /\ \A i \in 1..Len(serverNotes) : serverNotes'[i + 1] = serverNotes[i]

\* C1 as stated: a second upsert of an id replaces the entry in place, leaves
\* one entry for the id with the second call's fields, and its updatedAt is
\* later than the one the first call set.
C1_UpsertAdvancesUpdatedAt ==
  [][\A body \in Bodies :
       PostNote(body) => UpsertEffect(body, LAMBDA old, new : new > old)]_vars

\* C1 as amended: the same, with an updatedAt that is the clock reading of
\* the second call and is never earlier than the one the first call set
\* (two calls served within one millisecond carry the same updatedAt).
C1_UpsertInPlace ==
  [][\A body \in Bodies :
       PostNote(body) =>
         /\ UpsertEffect(body, LAMBDA old, new : new >= old)
         /\ srvRes'.json.updatedAt = Some(now)]_vars

\* An entry that is not at index 0 has been replaced by a second upsert.
C1_Witness ==
  /\ srvRes.op = "post"
  /\ srvRes.existingIndex >= 2
  /\ serverNotes[srvRes.existingIndex] = srvRes.json
  /\ The(srvRes.json.updatedAt) > The(srvRes.json.createdAt)

(***************************************************************************)
(* C5, C6.  Search.                                                        *)
(***************************************************************************)
\* The query is empty or consists of whitespace only.
Blank(query) == \A i \in 1..Len(query) : IsWhitespace(query[i])

\* C5: for the empty query and every whitespace-only query, the context's
\* searchNotes and the backend's search endpoint return the whole
\* collection in store order.
C5_BlankQueryReturnsAll ==
  /\ searchResult.op = "searchNotes" /\ Blank(The(searchResult.query))
       => searchResult.result = notes
  /\ searchResult.op = "GET /api/notes/search"
       /\ IsSome(searchResult.query) /\ Blank(The(searchResult.query))
       => searchResult.result = serverNotes

\* The part of C5 that is about the context's searchNotes.
C5_ContextBlankQueryReturnsAll ==
  searchResult.op = "searchNotes" /\ Blank(The(searchResult.query))
    => searchResult.result = notes

\* q occurs in s when letter case is ignored.
OccursIgnoringCase(q, s) ==
  \E k \in 0..(Len(s) - Len(q)) :
    \A j \in 1..Len(q) : toLowerCaseChar(s[k + j]) = toLowerCaseChar(q[j])

MatchesNote(q, n) ==
  \/ OccursIgnoringCase(q, n.title)
  \/ OccursIgnoringCase(q, n.content)
  \/ OccursIgnoringCase(q, n.originalText)
  \/ \E i \in 1..Len(n.tags) : OccursIgnoringCase(q, n.tags[i])

MatchesServerNote(q, n) ==
  \/ \E f \in {n.title, n.summary, n.structuredContent, n.originalText} :
       IsSome(f) /\ OccursIgnoringCase(q, The(f))
  \/ IsSome(n.tags) /\ \E i \in 1..Len(The(n.tags)) :
       OccursIgnoringCase(q, The(n.tags)[i])

\* C6: for a query that is not blank, search returns exactly the notes in
\* which the query occurs, ignoring case, in the title, the content or
\* summary, the originalText or a tag, and returns them in store order.
C6_SearchIsCaseInsensitiveFilter ==
  /\ searchResult.op = "searchNotes" /\ ~Blank(The(searchResult.query))
       => searchResult.result =
            SelectSeq(notes, LAMBDA n : MatchesNote(The(searchResult.query), n))
  /\ searchResult.op = "GET /api/notes/search"
       /\ IsSome(searchResult.query) /\ ~Blank(The(searchResult.query))
       => searchResult.result =
            SelectSeq(serverNotes,
                      LAMBDA n : MatchesServerNote(The(searchResult.query), n))

\* "WORK" finds a note by its tag "Work" alone, and leaves another note out.
C6_Witness ==
  /\ searchResult.op = "searchNotes"
  /\ searchResult.query = Some(sWORK)
  /\ Len(searchResult.result) < Len(notes)
  /\ \E i \in 1..Len(searchResult.result) :
       LET n == searchResult.result[i]
       IN  /\ \E t \in 1..Len(n.tags) : n.tags[t] = sWork
           /\ ~OccursIgnoringCase(sWORK, n.title)
           /\ ~OccursIgnoringCase(sWORK, n.content)
           /\ ~OccursIgnoringCase(sWORK, n.originalText)

(***************************************************************************)
(* C2, C3, C4, C8.  The note collection of the context.                    *)
(***************************************************************************)
UniqueIds(s) == \A i, j \in 1..Len(s) : s[i].id = s[j].id => i = j

\* C2: no two notes of a collection have the same id, in memory, in durable
\* storage and in the backend store.
C2_IdsAreUnique ==
  /\ UniqueIds(notes)
  /\ IsSome(stored) => UniqueIds(The(stored))
  /\ UniqueIds(serverNotes)

\* The step in which capture p's addNote(n) acts.
AddNoteStep(p) == cap[p].pc = "structuring" /\ cap'[p].pc = "saving"

\* C3: addNote(n) on a collection L leaves n followed by the notes of L, in
\* memory and (when the write succeeds) in durable storage.
C3_AddNotePrepends ==
  [][\A p \in Pids :
       AddNoteStep(p) =>
         LET n == The(cap'[p].note)
         IN  /\ notes' = <<n>> \o notes
             /\ cap'[p].writeOk => stored' = Some(<<n>> \o notes)]_vars

\* C4: deleteNote(id) removes the notes with that id and no other, keeps
\* the order of the rest, and persists the result when the write succeeds.
C4_DeleteRemovesOnlyThatNote ==
  [][\A ok \in BOOLEAN :
       deleteNote(ok) =>
         LET id == The(alert).noteId
         IN  /\ notes' = SelectSeq(notes, LAMBDA n : n.id # id)
             /\ ok => stored' = Some(notes')]_vars

\* C8: the write of one capture's addNote does not remove the note that
\* another capture has added, in memory or in durable storage.
C8_NoCaptureOverwritten ==
  [][\A p, q \in Pids :
       (p # q /\ AddNoteStep(q) /\ IsSome(cap[p].note)) =>
         LET id == The(cap[p].note).id
         IN  /\ id \in Ids(notes) => id \in Ids(notes')
             /\ (cap'[q].writeOk /\ IsSome(stored) /\ id \in Ids(The(stored)))
                  => id \in Ids(The(stored'))]_vars

(***************************************************************************)
(* C7.  A structuring call that rejects.                                   *)
(***************************************************************************)
InLog(p, x) == \E i \in 1..Len(cap[p].log) : cap[p].log[i] = x

CountLog(log, x) == Cardinality({i \in 1..Len(log) : log[i] = x})

StoredIds == IF IsSome(stored) THEN Ids(The(stored)) ELSE {}

\* Capture p has failed without reaching addNote.
FailedBeforeAddNote(p) == cap[p].pc = "failed" /\ ~InLog(p, "addNote")

\* C7: when the structuring call rejects, or cannot be made for want of a
\* credential, the step leaves the collection as it is in memory and in
\* storage, addNote has not been invoked, no Note is returned and no note
\* of that capture is in the collection.
C7_StructuringFailureLeavesStore ==
  /\ [][\A p \in Pids :
          (cap[p].pc \in {"idle", "structuring"} /\ cap'[p].pc = "failed")
            => notes' = notes /\ stored' = stored]_vars
  /\ [](\A p \in Pids :
          FailedBeforeAddNote(p) =>
            /\ cap[p].note = None
            /\ generateId(p) \notin Ids(notes)
            /\ generateId(p) \notin StoredIds)

\* A structuring request was sent and rejected while notes were stored.
C7_Witness ==
  \E p \in Pids :
    /\ cap[p].pc = "failed"
    /\ cap[p].log = <<"completion">>
    /\ Len(notes) >= 2
    /\ stored = Some(notes)

(***************************************************************************)
(* C9, C10.  Calendar sync within addNote.                                 *)
(***************************************************************************)
IndexInLog(log, x) == CHOOSE i \in 1..Len(log) : log[i] = x

\* C9: the calendar is called only after the note has been put in memory
\* and written to storage, and whatever the sync's outcome the step leaves
\* notes, storage and the store's error as they are and the capture ends
\* without rejecting.
C9_NoteIndependentOfCalendar ==
  /\ [](\A p \in Pids :
          InLog(p, "createEventFromNote") =>
            /\ InLog(p, "addNote")
            /\ IndexInLog(cap[p].log, "addNote")
                 < IndexInLog(cap[p].log, "createEventFromNote")
            /\ cap[p].writeOk
            /\ cap[p].pc \in {"calendar", "done"})
  /\ [][\A p \in Pids :
          ((cap[p].pc = "saving" /\ cap[p].writeOk) \/ cap[p].pc = "calendar")
            /\ cap'[p] # cap[p]
          => /\ notes' = notes
             /\ stored' = stored
             /\ error' = error
             /\ cap'[p].pc \in {"calendar", "done"}]_vars

\* A sync was rejected with 401 (the token is gone although nobody
\* disconnected) and the note is stored, with no error.
C9_Witness ==
  \E p \in Pids :
    /\ cap[p].pc = "done"
    /\ InLog(p, "events")
    /\ userOps = 0
    /\ tokens = None
    /\ The(cap[p].note).id \in Ids(notes)
    /\ The(cap[p].note).id \in StoredIds
    /\ error = None

\* The note is one the orchestration policy syncs.
IsCalendarNote(note) ==
  note.category \in {"meeting", "event"} /\ IsSome(note.eventDate)

C11_NoRequestWhenDisconnectedOrUndated ==
  [][\A note \in CalendarNotes :
       (createEventFromNote(note) /\ (~IsSome(tokens) \/ ~IsSome(note.eventDate)))
         => /\ gcal'.res.op = "createEventFromNote"
            /\ gcal'.res.note = note
            /\ ~gcal'.res.requestSent
            /\ gcal'.ev = gcal.ev
            /\ gcal'.res.result =
                 (IF ~IsSome(tokens) THEN NotConnected ELSE NoEventDate)
            /\ ~gcal'.res.result.success
            /\ tokens' = tokens
            /\ storedTokens' = storedTokens]_vars

\* The adapter, connected by setTokensFromAuth, was handed a note without
\* an eventDate and returned at once.
C11_Witness ==
  /\ gcal.res.op = "createEventFromNote"
  /\ gcal.res.result = NoEventDate
  /\ IsSome(tokens)
  /\ gcal.since = "connect"
  /\ gcal.calls = 3

\* C12: when the create-event request is rejected with 401 the adapter
\* clears its token in memory and in storage and returns the
\* session-expired error; on any other rejection the token is unchanged and
\* the error is the message the remote gave.
C12_AuthRejectionClearsToken ==
  [][\A r \in CalendarResponses, ok \in BOOLEAN :
       (createEventResponse(r, ok) /\ r.kind = "response")
         => /\ r.status = 401
                => /\ tokens' = None
                   /\ storedTokens' = None
                   /\ gcal'.res.result = SessionExpired
            /\ r.status \notin {200, 401}
                => /\ tokens' = tokens
                   /\ storedTokens' = storedTokens
                   /\ IsSome(r.message)
                        => gcal'.res.result.error = The(r.message)]_vars

C14_WriteFailureKeepsChange ==
  /\ [][\A p \in Pids :
          (AddNoteStep(p) /\ ~cap'[p].writeOk /\ stored = Some(notes))
            => /\ notes' = <<The(cap'[p].note)>> \o notes
               /\ stored' = stored]_vars
  /\ [][\A p \in Pids :
          SaveFail(p) => /\ cap'[p].pc = "failed"
                         /\ IsSome(error')
                         /\ notes' = notes
                         /\ stored' = stored]_vars
  /\ [][(deleteNote(FALSE) /\ stored = Some(notes))
          => /\ notes' = SelectSeq(notes, LAMBDA n : n.id # The(alert).noteId)
             /\ stored' = stored
             /\ error' = Some("Failed to delete note")]_vars

(***************************************************************************)
(* C15, C16.  Transcription, structuring and the credential.               *)
(***************************************************************************)
\* C15: in a voice capture the structuring request follows the
\* transcription request and is sent when the transcript has arrived, with
\* the transcript as its text; when transcription fails the step changes
\* neither memory nor storage, no structuring request is sent, addNote is
\* not invoked and no note of the capture is saved.
C15_TranscriptionBeforeStructuring ==
  /\ [](\A p \in Pids :
          cap[p].noteType = "voice" =>
            /\ InLog(p, "completion") =>
                 /\ InLog(p, "transcription")
                 /\ IndexInLog(cap[p].log, "transcription")
                      < IndexInLog(cap[p].log, "completion")
            /\ cap[p].pc = "structuring" => cap[p].rawText \in Transcripts
            /\ IsSome(cap[p].note) => The(cap[p].note).originalText \in Transcripts
            /\ (cap[p].pc = "failed" /\ ~InLog(p, "completion")) =>
                 /\ ~InLog(p, "addNote")
                 /\ cap[p].note = None
                 /\ generateId(p) \notin Ids(notes)
                 /\ generateId(p) \notin StoredIds)
  /\ [][\A p \in Pids :
          (cap[p].pc = "transcribing" /\ cap'[p].pc # "transcribing")
            => /\ notes' = notes
               /\ stored' = stored
               /\ \/ cap'[p].pc = "failed" /\ cap'[p].log = cap[p].log
                  \/ /\ cap'[p].pc = "structuring"
                     /\ cap'[p].log = Append(cap[p].log, "completion")
                     /\ cap'[p].rawText \in Transcripts]_vars

\* One voice capture has failed in transcription while notes were stored,
\* and another has been transcribed, structured and saved.
C15_Witness ==
  \E p, q \in Pids :
    /\ cap[p].noteType = "voice" /\ cap[p].pc = "failed"
    /\ cap[p].log = <<"transcription">>
    /\ cap[q].noteType = "voice" /\ cap[q].pc = "done"
    /\ The(cap[q].note).originalText = sTea
    /\ Len(notes) >= 2

\* C16: without a credential structureNote and transcribeAudio fail with
\* the configuration error and no request is sent to the completion or the
\* transcription endpoint.
C16_NoRequestWithoutCredential ==
  /\ [](\A p \in Pids :
          (InLog(p, "completion") \/ InLog(p, "transcription")) => GROQ_API_KEY)
  /\ [][\A p \in Pids :
          (~GROQ_API_KEY /\ cap[p].pc = "idle" /\ cap'[p].pc # "idle")
            => /\ cap'[p].pc = "failed"
               /\ cap'[p].log = <<>>
               /\ error' = Some("GROQ_API_KEY is not configured")]_vars

\* A text capture and a voice capture have both failed for want of a
\* credential.
C16_Witness ==
  /\ ~GROQ_API_KEY
  /\ error = Some("GROQ_API_KEY is not configured")
  /\ \E p, q \in Pids :
       /\ cap[p].pc = "failed" /\ cap[p].noteType = "voice" /\ cap[p].log = <<>>
       /\ cap[q].pc = "failed" /\ cap[q].noteType = "text" /\ cap[q].log = <<>>

(***************************************************************************)
(* C17, C18, C19.  The fields a note gets locally.                         *)
(***************************************************************************)
\* The part of C17 that is about the client's ApiService.structureNote: the
\* note has the id generated for the capture, the raw input as originalText,
\* the requested noteType and the clock's reading as createdAt, whatever
\* the response holds.
C17_ClientLocalFields ==
  [][\A p \in Pids, r \in Responses, ok \in BOOLEAN :
       StructureOk(p, r, ok) =>
         LET n == The(cap'[p].note)
         IN  /\ n.id = generateId(p)
             /\ n.originalText = cap[p].rawText
             /\ n.noteType = cap[p].noteType
             /\ n.createdAt = now]_vars

\* C17: for every response of the language model the structured note has a
\* locally generated id, the raw input as originalText, the requested
\* noteType and a locally set createdAt, in the client's structureNote and
\* in the backend's POST /api/structure-note.
C17_LocalFieldsNotOverridden ==
  /\ C17_ClientLocalFields
  /\ [][\A rawText \in ServerRawTexts, noteType \in {"text", "voice"},
          structured \in ServerResponses :
          (PostStructureNote(rawText, noteType, structured)
             /\ srvRes'.status = 200)
            => /\ srvRes'.json.id = uuidv4
               /\ srvRes'.json.originalText = rawText
               /\ srvRes'.json.noteType = noteType
               /\ srvRes'.json.createdAt = now]_vars

\* C18: every write of a note sets its updatedAt: the backend's upsert, and
\* addNote for the note it puts in memory and in durable storage.
C18_UpdatedAtSetOnEveryWrite ==
  /\ [][\A body \in Bodies :
          PostNote(body) => srvRes'.json.updatedAt = Some(now)]_vars
  /\ [](\A i \in 1..Len(serverNotes) : IsSome(serverNotes[i].updatedAt))
  /\ [][\A p \in Pids :
          AddNoteStep(p) =>
            /\ IsSome(notes'[1].updatedAt)
            /\ cap'[p].writeOk => IsSome(The(stored')[1].updatedAt)]_vars

\* The part of C18 that is about the backend's upsert.
C18_ServerUpsertSetsUpdatedAt ==
  /\ [][\A body \in Bodies :
          PostNote(body) => srvRes'.json.updatedAt = Some(now)]_vars
  /\ [](\A i \in 1..Len(serverNotes) : IsSome(serverNotes[i].updatedAt))

\* C19: an upsert that carries the id of a stored entry leaves the entry's
\* originalText, noteType and createdAt as they were when it was inserted.
C19_CreationFieldsImmutable ==
  [][\A body \in Bodies :
       PostNote(body) =>
         \A i \in 1..Len(serverNotes) :
           serverNotes[i].id = srvRes'.json.id =>
             /\ serverNotes'[i].originalText = serverNotes[i].originalText
             /\ serverNotes'[i].noteType = serverNotes[i].noteType
             /\ serverNotes'[i].createdAt = serverNotes[i].createdAt]_vars

(***************************************************************************)
(* C20.  The published discover items.                                     *)
(***************************************************************************)
\* Number of times the tag occurs in the tag sequences of the collection.
Occurrences(ns, tag) ==
  Cardinality(UNION { { <<i, k>> : k \in {x \in 1..Len(ns[i].tags) :
                                            ns[i].tags[x] = tag} } :
                      i \in 1..Len(ns) })

TagsOf(ns) == UNION {{ns[i].tags[k] : k \in 1..Len(ns[i].tags)} : i \in 1..Len(ns)}

Min(a, b) == IF a < b THEN a ELSE b

\* How many items the generation yields before the cut: one resurfacing
\* item for more than 5 notes, a thread item for each of at most two tags
\* that occur twice or more, one explore item when a tag occurs once.
GeneratedCount(ns) ==
  (IF Len(ns) > 5 THEN 1 ELSE 0)
    + Min(2, Cardinality({t \in TagsOf(ns) : Occurrences(ns, t) >= 2}))
    + (IF \E t \in TagsOf(ns) : Occurrences(ns, t) = 1 THEN 1 ELSE 0)

TypeRank(type) ==
  CASE type = "resurfacing" -> 0 [] type = "thread" -> 1 [] type = "explore" -> 2

\* C20: the published items number at most 3, the resurfacing item comes
\* first, then the thread items, then the explore item, and the list is the
\* first 3 of what was generated: with a resurfacing item and two thread
\* items the explore item is the one that is dropped.
C20_AtMostThreeInCategoryOrder ==
  [][\A r \in RandomPicks(notes) :
       generateDiscoverItems(r) =>
         LET d == discoverItems'
         IN  /\ Len(d) <= 3
             /\ Len(d) = Min(3, GeneratedCount(notes))
             /\ \A i, j \in 1..Len(d) :
                  i < j => TypeRank(d[i].type) <= TypeRank(d[j].type)
             /\ Len(notes) > 5 => d[1].type = "resurfacing"
             /\ (Len(notes) > 5
                   /\ Cardinality({t \in TagsOf(notes) :
                                     Occurrences(notes, t) >= 2}) >= 2)
                  => /\ d[2].type = "thread" /\ d[3].type = "thread"
                     /\ \A i \in 1..Len(d) : d[i].type # "explore"]_vars

\* One resurfacing item and two thread items are published for a
\* collection in which a tag occurs once: the explore item was dropped.
C20_Witness ==
  /\ Len(discoverItems) = 3
  /\ discoverItems[1].type = "resurfacing"
  /\ discoverItems[2].type = "thread"
  /\ discoverItems[3].type = "thread"
  /\ \E t \in TagsOf(notes) : Occurrences(notes, t) = 1

(***************************************************************************)
(* C21, C22, C30.  Resurfacing, threads and the ids of the items.          *)
(***************************************************************************)
\* C21: no resurfacing item is published for 5 notes or fewer; for more
\* than 5 exactly one is, and whatever the random pick its source note is
\* at an index from 3 to length-1 of the collection (counted from 0).
C21_ResurfacingThreshold ==
  [][\A r \in RandomPicks(notes) :
       generateDiscoverItems(r) =>
         LET d == discoverItems'
             res == {k \in 1..Len(d) : d[k].type = "resurfacing"}
         IN  /\ Len(notes) <= 5 => res = {}
             /\ Len(notes) > 5 =>
                  /\ Cardinality(res) = 1
                  /\ \A k \in res :
                       \E i \in 3..(Len(notes) - 1) :
                         d[k].noteIds = Some(<<notes[i + 1].id>>)]_vars

\* The last of 6 notes is resurfaced.
C21_Witness ==
  /\ Len(notes) = 6
  /\ discoverFor = notes
  /\ discoverItems[1].type = "resurfacing"
  /\ discoverItems[1].noteIds = Some(<<notes[6].id>>)

\* The notes of the collection that carry the tag, in order.
Carriers(ns, tag) ==
  SelectSeq(ns, LAMBDA n : \E k \in 1..Len(n.tags) : n.tags[k] = tag)

\* Position of the first note that carries the tag.
FirstSeen(ns, tag) ==
  CHOOSE i \in 1..Len(ns) :
    /\ \E k \in 1..Len(ns[i].tags) : ns[i].tags[k] = tag
    /\ \A j \in 1..(i - 1) : \A k \in 1..Len(ns[j].tags) : ns[j].tags[k] # tag

\* C22: a thread item is published only for a tag that at least 2 distinct
\* notes carry; its noteIds are the notes that carry the tag, each once,
\* and it names their number; the tags with a thread item are the first
\* tags, in first-seen order, that 2 notes or more carry.
C22_ThreadsForSharedTags ==
  [][\A r \in RandomPicks(notes) :
       generateDiscoverItems(r) =>
         LET d == discoverItems'
             shared == {t \in TagsOf(notes) : Len(Carriers(notes, t)) >= 2}
         IN  \A k \in 1..Len(d) :
               d[k].type = "thread" =>
                 LET c == Carriers(notes, d[k].subject)
                 IN  /\ d[k].subject \in shared
                     /\ d[k].noteIds = Some([i \in 1..Len(c) |-> c[i].id])
                     /\ d[k].count = Len(c)
                     /\ \A t \in shared :
                          FirstSeen(notes, t) < FirstSeen(notes, d[k].subject)
                            => \E j \in 1..Len(d) :
                                 d[j].type = "thread" /\ d[j].subject = t]_vars

\* C30: the ids of the published items are pairwise distinct, and no tag
\* has both a thread item and the explore item.
C30_ItemIdsDistinct ==
  [][\A r \in RandomPicks(notes) :
       generateDiscoverItems(r) =>
         LET d == discoverItems'
         IN  /\ \A i, j \in 1..Len(d) : d[i].id = d[j].id => i = j
             /\ \A i, j \in 1..Len(d) :
                  (d[i].type = "thread" /\ d[j].type = "explore")
                    => d[i].subject # d[j].subject]_vars

\* Two thread items and the explore item are published together.
C30_Witness ==
  /\ Len(discoverItems) = 3
  /\ discoverItems[1].type = "thread"
  /\ discoverItems[2].type = "thread"
  /\ discoverItems[3].type = "explore"

(***************************************************************************)
(* C23.  The end of a timed event.                                         *)
(***************************************************************************)
\* Minutes since midnight of the event date of a dateTime YYYY-MM-DDTHH:MM:00.
MinuteOfDay(dateTime) ==
  Number(SubSeq(dateTime, 12, 13)) * 60 + Number(SubSeq(dateTime, 15, 16))

DateOf(dateTime) == SubSeq(dateTime, 1, 10)

\* C23: the timed event of a request sent for a note with an eventTime and
\* no end of its own ends on the instant one hour after its start, so never
\* before it starts.
C23_TimedEventLastsOneHour ==
  (/\ gcal.ev.pc = "sent"
   /\ gcal.ev.event.timed
   /\ ~IsSome(eventEndTime(gcal.ev.note)))
    => /\ DateOf(gcal.ev.event.end) = DateOf(gcal.ev.event.start)
       /\ MinuteOfDay(gcal.ev.event.end) = MinuteOfDay(gcal.ev.event.start) + 60

(***************************************************************************)
(* C24.  The effect on the note collection.                                *)
(***************************************************************************)
\* The note ids that the published items refer to.
ReferencedIds ==
  UNION {{The(discoverItems[k].noteIds)[i] :
            i \in 1..Len(The(discoverItems[k].noteIds))} :
           k \in {j \in 1..Len(discoverItems) : IsSome(discoverItems[j].noteIds)}}

\* C24: after every change of the collection the items are eventually
\* those of a run of the effect over the current collection; the items of
\* such a run are a computation over that collection alone, and every note
\* id they refer to is the id of a note of the collection.
C24_ItemsRegeneratedOnChange ==
  /\ (discoverFor # notes) ~> (discoverFor = notes)
  /\ [](discoverFor = notes =>
          /\ \E r \in RandomPicks(notes) : discoverItems = discoverItemsOf(notes, r)
          /\ ReferencedIds \subseteq Ids(notes))

\* The effect has run for the two stored notes and a captured one, and the
\* published thread refers to notes of the collection.
C24_Witness ==
  /\ discoverFor = notes
  /\ Len(notes) = 3
  /\ cap[1].pc = "done"
  /\ ReferencedIds # {}

(***************************************************************************)
(* C25, C26.  The capture modal and its calls in flight.                   *)
(***************************************************************************)
\* C25: when the call of a handler settles after handleClose ran while it
\* was in flight, the modal's mode, createdNote and error are left as they
\* are; with the modal still closed they are choice, null and null.
C25_DismissedCallLeavesModalReset ==
  [][\A p \in Pids :
       (handlerSettled(p) /\ modal.handlers[p].dismissed) =>
         /\ modal'.mode = modal.mode
         /\ modal'.createdNote = modal.createdNote
         /\ modal'.error = modal.error
         /\ ~modal.visible =>
              /\ modal'.mode = "choice"
              /\ modal'.createdNote = None
              /\ modal'.error = None]_vars

\* C26: when the call of a handler settles, a resolved call shows the
\* preview; a rejected structureText shows the text step with an error and
\* the text that was submitted; a rejected structureVoice shows the voice
\* step with an error. A submit of a blank text does not show processing.
C26_ProcessingEndsInPreviewOrInputStep ==
  [][/\ \A p \in Pids :
          handlerSettled(p) =>
            IF cap[p].pc = "done"
              THEN modal'.mode = "preview" /\ modal'.createdNote = cap[p].note
              ELSE /\ modal'.error # None
                   /\ modal.handlers[p].kind = "text" =>
                        /\ modal'.mode = "text"
                        /\ modal'.textInput = modal.handlers[p].text
                   /\ modal.handlers[p].kind = "voice" => modal'.mode = "voice"
     /\ \A p \in Pids :
          (handleTextSubmit(p) /\ trim(modal.textInput) = <<>>) =>
            modal'.mode # "processing"]_vars

(***************************************************************************)
(* C27, C28.  Captures that overlap the startup load or a deletion.        *)
(***************************************************************************)
StoredNotes == IF IsSome(stored) THEN The(stored) ELSE <<>>

\* The ids of the notes that durable storage may hold when the app starts.
StartupIds == {oldNote1.id, oldNote2.id}

\* The startup load has delivered, every capture made has completed, and
\* nothing else was asked for and nothing failed.
LoadAndCapturesCompleted ==
  /\ load.pc = "idle"
  /\ ~loading
  /\ error = None
  /\ userOps = 0
  /\ \A p \in Pids : cap[p].pc \in {"idle", "done"}

\* C27: the write of a capture's addNote removes no note from durable
\* storage that was stored at startup, whenever the startup load delivers;
\* and once the load and the captures have completed the collection in
\* memory is the persisted one.
C27_StartupNotesSurviveCapture ==
  /\ [][\A p \in Pids :
          (AddNoteStep(p) /\ cap'[p].writeOk) =>
            \A id \in StartupIds \cap StoredIds : id \in Ids(StoredNotes')]_vars
  /\ [](LoadAndCapturesCompleted => notes = StoredNotes)

\* C28: after the addNote of a capture, no note whose deleteNote has
\* resolved is in the collection, in memory or in durable storage.
C28_DeletedNoteStaysDeleted ==
  [][\A p \in Pids :
       AddNoteStep(p) =>
         \A id \in deletedIds :
           id \notin Ids(notes') /\ id \notin Ids(StoredNotes')]_vars

(***************************************************************************)
(* C29.  The context's flag and the adapter's token.                       *)
(***************************************************************************)
\* C29: when the connection check of the mount effect has settled and no
\* capture awaits its create-event request, isCalendarConnected is true
\* exactly when the adapter holds an access token.
C29_FlagAgreesWithAdapter ==
  (check.pc = "done" /\ \A p \in Pids : cap[p].pc # "calendar")
    => (isCalendarConnected <=> IsSome(tokens))

====
